---- MODULE Spec2Model ----
(***************************************************************************)
(* Model of prayer_times_calendar.py: the month-by-month fetch with its    *)
(* retry loop (get_calendar_csv), the conversion of the daily timing       *)
(* records into calendar rows (convert_entries_to_csv_lines) with the      *)
(* Midnight event derived from the previous Maghrib, and the final write   *)
(* of the CSV file.                                                        *)
(*                                                                         *)
(* Representation.  A timestamp string is a record of the parts that are   *)
(* written in it; a datetime is [s, us, off]: wall-clock seconds since     *)
(* 2024-01-01T00:00:00, microseconds 0..999999, and the utc offset tzinfo  *)
(* as <<>> (naive) or <<minutes>>.  A timedelta is [s, us].  An optional   *)
(* value (None or x) is <<>> or <<x>>.  An ordered mapping is a sequence   *)
(* of <<key, value>> pairs.  A formatted date is <<mm, dd, yyyy>> and a    *)
(* formatted time <<hh, mm, ss, "AM"|"PM">>.                               *)
(***************************************************************************)
EXTENDS Integers, Sequences, FiniteSets, TLC

\* ------------------------------------------------------------------ bounds
MaxMonths == 2
MaxDays == 2
MaxEntries == 3

\* ------------------------------------------------------- configuration
MINUTES_BEFORE == 0
MINUTES_AFTER == 5
YEAR == 2024
NUM_REQUEST_TRIES == 5
COPIED_FIELDS == <<"Fajr", "Sunrise", "Dhuhr", "Asr", "Maghrib", "Isha">>
EVENT_NAMES == <<"Fajr", "Sunrise", "Dhuhr", "Asr", "Maghrib", "Isha">>
EXTRA_MIDNIGHT_EVENT_NAME == "Midnight"
HeaderLine ==
  <<"Subject", "Start Date", "Start Time", "End Date", "End Time", "Description">>

\* ------------------------------------------------- optional values, mappings
None == <<>>
Some(x) == <<x>>

\* mapping[key] on an ordered mapping: the value of the first pair with the key
HasKey(od, k) == \E j \in 1..Len(od) : od[j][1] = k
OdGet(od, k) == od[CHOOSE j \in 1..Len(od) : od[j][1] = k][2]

\* OrderedDict.__setitem__: an existing key keeps its place, a new key goes last
OdSet(od, k, v) ==
  IF HasKey(od, k)
  THEN [j \in 1..Len(od) |-> IF od[j][1] = k THEN <<k, v>> ELSE od[j]]
  ELSE Append(od, <<k, v>>)

\* mutant of OdMoveToFront: move_to_end with its default last=True
OdMoveToBack(od, k) ==
  SelectSeq(od, LAMBDA p : p[1] # k) \o <<<<k, OdGet(od, k)>>>>

\* OrderedDict.move_to_end(key, last=False)
OdMoveToFront(od, k) ==
  <<<<k, OdGet(od, k)>>>> \o SelectSeq(od, LAMBDA p : p[1] # k)

\* --------------------------------------------------------- datetime values
UsPerSecond == 1000000
SecondsPerDay == 86400

\* days of 2024 before the first of each month (index 13: the whole year)
DaysBeforeMonth == <<0, 31, 60, 91, 121, 152, 182, 213, 244, 274, 305, 335, 366>>

\* datetime(y, m, d, ...).toordinal(), counted from 2024-01-01 = 0
ToOrdinal(date) == DaysBeforeMonth[date[2]] + date[3] - 1

\* date.fromordinal: the <<y, m, d>> of a day number of 2024
FromOrdinal(n) ==
  LET m == CHOOSE k \in 1..12 : DaysBeforeMonth[k] <= n /\ n < DaysBeforeMonth[k + 1]
  IN  <<YEAR, m, n - DaysBeforeMonth[m] + 1>>

\* timedelta(seconds=s, microseconds=us) normalised to 0 <= us < 10^6
TdNorm(s, us) == [s |-> s + (us \div UsPerSecond), us |-> us % UsPerSecond]

\* datetime.timedelta(minutes=n)
Minutes(n) == TdNorm(60 * n, 0)

\* mutant of DtSub: the difference of the wall clocks whatever the offsets
DtSubWallClock(a, b) == TdNorm(a.s - b.s, a.us - b.us)

\* datetime - datetime.  Equal tzinfo (both naive, or the same offset): the
\* difference of the wall clocks; one naive and one aware: TypeError; two
\* different offsets: the difference of the absolute instants.
DtSubRaises(a, b) == a.off # b.off /\ (a.off = None \/ b.off = None)
DtSub(a, b) ==
  LET base == TdNorm(a.s - b.s, a.us - b.us)
  IN  IF a.off = b.off THEN base
      ELSE TdNorm(base.s + 60 * (b.off[1] - a.off[1]), base.us)

\* timedelta / 2: the quotient in microseconds, rounded half to even
TdHalf(td) ==
  LET q   == td.s \div 2
      rem == (td.s % 2) * UsPerSecond + td.us
      h   == rem \div 2
      up  == rem % 2 = 1 /\ h % 2 = 1
  IN  TdNorm(q, IF up THEN h + 1 ELSE h)

\* datetime + timedelta and datetime - timedelta keep the datetime's tzinfo
DtAdd(dt, td) ==
  LET n == TdNorm(dt.s + td.s, dt.us + td.us)
  IN  [s |-> n.s, us |-> n.us, off |-> dt.off]
DtMinus(dt, td) ==
  LET n == TdNorm(dt.s - td.s, dt.us - td.us)
  IN  [s |-> n.s, us |-> n.us, off |-> dt.off]

\* ------------------------------------------------------ timestamp strings
\* "2024-01-01T05:00:00.000001-08:00 (PST)": date <<y, m, d>>, clock
\* <<h, mi, s, us>>, off <<>> or <<minutes>>, ann "" or " (PST)"
IsoStr(date, clock, off, ann) ==
  [txt |-> "iso", date |-> date, clock |-> clock, off |-> off, ann |-> ann]
\* "12:10 (PST)": a clock time without a date, not an ISO date-time
ClockStr(clock, ann) ==
  [txt |-> "clock", date |-> <<YEAR, 1, 1>>, clock |-> clock, off |-> None, ann |-> ann]

\* isoformat.split()[0]: what precedes the first white space
SplitFirst(str) == [str EXCEPT !.ann = ""]

\* datetime.datetime.fromisoformat: ValueError unless the whole string is an
\* ISO date-time (nothing may follow it)
FromIsoFormatRaises(str) == str.txt # "iso" \/ str.ann # ""
FromIsoFormat(str) ==
  [s   |-> ToOrdinal(str.date) * SecondsPerDay
           + str.clock[1] * 3600 + str.clock[2] * 60 + str.clock[3],
   us  |-> str.clock[4],
   off |-> str.off]

\* strftime("%m/%d/%Y")
FormatDate(dt) ==
  LET ymd == FromOrdinal(dt.s \div SecondsPerDay)
  IN  <<ymd[2], ymd[3], ymd[1]>>

\* strftime("%I:%M:%S %p")
FormatTime(dt) ==
  LET sod == dt.s % SecondsPerDay
      h24 == sod \div 3600
  IN  <<IF h24 % 12 = 0 THEN 12 ELSE h24 % 12,
        (sod % 3600) \div 60,
        sod % 60,
        IF h24 < 12 THEN "AM" ELSE "PM">>

\* ------------------------------------------- convert_entries_to_csv_lines
\* mutant of CsvLine: the End Date is formatted from start
CsvLineEndDateOfStart(subject, event_time) ==
  LET start == DtMinus(event_time, Minutes(MINUTES_BEFORE))
      end   == DtAdd(event_time, Minutes(MINUTES_AFTER))
  IN  <<subject, FormatDate(start), FormatTime(start),
        FormatDate(start), FormatTime(end), "Auto-generated">>

\* "{},{},{},{},{},Auto-generated".format(subject, start_date, start_time,
\* end_date, end_time) for one event
CsvLine(subject, event_time) ==
  LET start == DtMinus(event_time, Minutes(MINUTES_BEFORE))
      end   == DtAdd(event_time, Minutes(MINUTES_AFTER))
  IN  <<subject, FormatDate(start), FormatTime(start),
        FormatDate(end), FormatTime(end), "Auto-generated">>

\* the exception raised by reading one field of an entry, "" if none
FieldRaises(entry, field) ==
  IF ~HasKey(entry.timings, field) THEN "KeyError"
  ELSE IF FromIsoFormatRaises(SplitFirst(OdGet(entry.timings, field)))
       THEN "ValueError"
       ELSE ""

\* the index in COPIED_FIELDS of the first field that raises, 0 if none
FirstBadField(entry) ==
  IF \E k \in 1..Len(COPIED_FIELDS) : FieldRaises(entry, COPIED_FIELDS[k]) # ""
  THEN CHOOSE k \in 1..Len(COPIED_FIELDS) :
         /\ FieldRaises(entry, COPIED_FIELDS[k]) # ""
         /\ \A j \in 1..(k - 1) : FieldRaises(entry, COPIED_FIELDS[j]) = ""
  ELSE 0

\* event_times after the first k rounds of the loop over
\* zip(COPIED_FIELDS, EVENT_NAMES)
RECURSIVE ParsedTimes(_, _)
ParsedTimes(entry, k) ==
  IF k = 0 THEN <<>>
  ELSE OdSet(ParsedTimes(entry, k - 1), EVENT_NAMES[k],
             FromIsoFormat(SplitFirst(OdGet(entry.timings, COPIED_FIELDS[k]))))

\* mutant of MidnightTime: the half difference is added to the Fajr
MidnightTimeFromFajr(current_fajr_time, last_maghrib_time) ==
  DtAdd(current_fajr_time, TdHalf(DtSub(current_fajr_time, last_maghrib_time)))

\* the midpoint between the carried Maghrib and the current Fajr
MidnightTime(current_fajr_time, last_maghrib_time) ==
  DtAdd(last_maghrib_time, TdHalf(DtSub(current_fajr_time, last_maghrib_time)))

\* event_times once the Midnight event is put in front (last: the carried
\* Maghrib, None for the first entry)
WithMidnight(event_times, last) ==
  IF last # None
  THEN OdMoveToFront(
         OdSet(event_times, EXTRA_MIDNIGHT_EVENT_NAME,
               MidnightTime(OdGet(event_times, EVENT_NAMES[1]), last[1])),
         EXTRA_MIDNIGHT_EVENT_NAME)
  ELSE event_times

\* the lines of one entry: one per item of event_times, in its order
EntryLines(event_times) ==
  [j \in 1..Len(event_times) |-> CsvLine(event_times[j][1], event_times[j][2])]

\* mutant of Emitted: the Maghrib is not carried to the next round
EmittedNoCarry(event_times) ==
  [exc |-> "", event_times |-> event_times, last |-> None,
   new |-> EntryLines(event_times)]

\* one round of the loop over entries: the exception it raises ("" if none),
\* and event_times, last_maghrib_time and the new lines as it leaves them
Raised(e, event_times, last) ==
  [exc |-> e, event_times |-> event_times, last |-> last, new |-> <<>>]
Emitted(event_times) ==
  [exc |-> "", event_times |-> event_times,
   last |-> Some(OdGet(event_times, EVENT_NAMES[5])),
   new |-> EntryLines(event_times)]

\* mutant of ConvertEntry: an entry with a missing or unparsable field is
\* skipped and the pass goes on
ConvertEntrySkipping(entry, last) ==
  LET bad == FirstBadField(entry)
      all == ParsedTimes(entry, Len(COPIED_FIELDS))
  IN  IF bad # 0
      THEN [exc |-> "", event_times |-> ParsedTimes(entry, bad - 1),
            last |-> last, new |-> <<>>]
      ELSE IF last # None /\ DtSubRaises(OdGet(all, EVENT_NAMES[1]), last[1])
      THEN Raised("TypeError", all, last)
      ELSE Emitted(WithMidnight(all, last))

\* mutant of ConvertEntry: the carried Maghrib is dropped at the first day of
\* a month, as if each month were converted on its own
ConvertEntryMonthly(entry, last) ==
  LET bad   == FirstBadField(entry)
      all   == ParsedTimes(entry, Len(COPIED_FIELDS))
      carry == IF entry.timings[1][2].date[3] = 1 THEN None ELSE last
  IN  IF bad # 0
      THEN Raised(FieldRaises(entry, COPIED_FIELDS[bad]),
                  ParsedTimes(entry, bad - 1), last)
      ELSE IF carry # None /\ DtSubRaises(OdGet(all, EVENT_NAMES[1]), carry[1])
      THEN Raised("TypeError", all, last)
      ELSE Emitted(WithMidnight(all, carry))

ConvertEntry(entry, last) ==
  LET bad == FirstBadField(entry)
      all == ParsedTimes(entry, Len(COPIED_FIELDS))
  IN  IF bad # 0
      THEN Raised(FieldRaises(entry, COPIED_FIELDS[bad]),
                  ParsedTimes(entry, bad - 1), last)
      ELSE IF last # None /\ DtSubRaises(OdGet(all, EVENT_NAMES[1]), last[1])
      THEN Raised("TypeError", all, last)
      ELSE Emitted(WithMidnight(all, last))

\* the whole loop over `entries`, from the state st = [exc, last, lines]
RECURSIVE ConvertFrom(_, _, _)
ConvertFrom(entries, k, st) ==
  IF k > Len(entries) \/ st.exc # "" THEN st
  ELSE LET r == ConvertEntry(entries[k], st.last)
       IN  ConvertFrom(entries, k + 1,
                       [exc |-> r.exc, last |-> r.last, lines |-> st.lines \o r.new])

\* convert_entries_to_csv_lines(entries): [exc, lines], lines being what is
\* returned when exc = ""
ConvertEntriesToCsvLines(entries) ==
  LET st == ConvertFrom(entries, 1, [exc |-> "", last |-> None, lines |-> <<>>])
  IN  [exc |-> st.exc, lines |-> IF st.exc = "" THEN st.lines ELSE <<>>]

\* ------------------------------------------------------ get_calendar_data
\* what the session's GET can come back with: no response, a body that is
\* not JSON, or JSON {code, data} where data is null or a list of entries
NetworkError == [kind |-> "neterr", code |-> 0, data |-> None]
BadJson == [kind |-> "badjson", code |-> 0, data |-> None]
JsonBody(code, data) == [kind |-> "json", code |-> code, data |-> data]

\* mutant of GetCalendarDataRaises: the assertion on res['code'] is not made
GetCalendarDataUnasserted(res) ==
  IF res.kind = "neterr" THEN "ConnectionError"
  ELSE IF res.kind = "badjson" THEN "JSONDecodeError"
  ELSE ""

GetCalendarDataRaises(res) ==
  IF res.kind = "neterr" THEN "ConnectionError"
  ELSE IF res.kind = "badjson" THEN "JSONDecodeError"
  ELSE IF res.code # 200 THEN "AssertionError"
  ELSE ""
\* the returned res['data']: None for a JSON null, else the list
GetCalendarData(res) == res.data

\* ------------------------------------------- the records a month can return
Clock(h, mi, sec, us) == <<h, mi, sec, us>>

\* one day's entry: 'timings' in the given key order
Entry(timings) == [timings |-> timings]

\* the day entries the model draws from, each for a given date <<y, m, d>>:
\*   "plain"    naive timestamps, the six keys in canonical order
\*   "pst"      offset -08:00 and a " (PST)" annotation, keys in another
\*              order, with the extra keys the service adds
\*   "pdt"      offset -07:00 and a " (PDT)" annotation, extra keys
\*   "late"     naive, a Fajr with a microsecond part, an Isha at 23:58:30
\*   "noasr"    "plain" with the Asr key missing
\*   "baddhuhr" "plain" with a Dhuhr that is a clock time, not a date-time
Variants == {"plain", "pst", "pdt", "late", "noasr", "baddhuhr"}

DayEntry(v, date) ==
  LET N(c) == IsoStr(date, c, None, "")
      P(c) == IsoStr(date, c, <<-480>>, " (PST)")
      D(c) == IsoStr(date, c, <<-420>>, " (PDT)")
  IN CASE v = "plain" ->
            Entry(<<<<"Fajr", N(Clock(5, 0, 0, 0))>>,
                    <<"Sunrise", N(Clock(6, 30, 0, 0))>>,
                    <<"Dhuhr", N(Clock(12, 10, 0, 0))>>,
                    <<"Asr", N(Clock(15, 0, 0, 0))>>,
                    <<"Maghrib", N(Clock(17, 30, 0, 0))>>,
                    <<"Isha", N(Clock(19, 0, 0, 0))>>>>)
       [] v = "pst" ->
            Entry(<<<<"Midnight", P(Clock(23, 45, 0, 0))>>,
                    <<"Isha", P(Clock(19, 0, 0, 0))>>,
                    <<"Maghrib", P(Clock(17, 30, 0, 0))>>,
                    <<"Sunset", P(Clock(17, 30, 0, 0))>>,
                    <<"Asr", P(Clock(15, 0, 0, 0))>>,
                    <<"Dhuhr", P(Clock(12, 10, 0, 0))>>,
                    <<"Sunrise", P(Clock(6, 30, 0, 0))>>,
                    <<"Fajr", P(Clock(5, 2, 0, 0))>>,
                    <<"Imsak", P(Clock(4, 52, 0, 0))>>>>)
       [] v = "pdt" ->
            Entry(<<<<"Fajr", D(Clock(6, 26, 0, 0))>>,
                    <<"Sunrise", D(Clock(7, 30, 0, 0))>>,
                    <<"Dhuhr", D(Clock(13, 10, 0, 0))>>,
                    <<"Asr", D(Clock(16, 20, 0, 0))>>,
                    <<"Sunset", D(Clock(18, 40, 0, 0))>>,
                    <<"Maghrib", D(Clock(18, 40, 0, 0))>>,
                    <<"Isha", D(Clock(20, 10, 0, 0))>>,
                    <<"Imsak", D(Clock(6, 16, 0, 0))>>>>)
       [] v = "late" ->
            Entry(<<<<"Fajr", N(Clock(6, 26, 0, 1))>>,
                    <<"Sunrise", N(Clock(7, 30, 0, 0))>>,
                    <<"Dhuhr", N(Clock(12, 10, 0, 0))>>,
                    <<"Asr", N(Clock(15, 0, 0, 0))>>,
                    <<"Maghrib", N(Clock(17, 30, 0, 0))>>,
                    <<"Isha", N(Clock(23, 58, 30, 0))>>>>)
       [] v = "noasr" ->
            Entry(<<<<"Fajr", N(Clock(5, 0, 0, 0))>>,
                    <<"Sunrise", N(Clock(6, 30, 0, 0))>>,
                    <<"Dhuhr", N(Clock(12, 10, 0, 0))>>,
                    <<"Maghrib", N(Clock(17, 30, 0, 0))>>,
                    <<"Isha", N(Clock(19, 0, 0, 0))>>>>)
       [] v = "baddhuhr" ->
            Entry(<<<<"Fajr", N(Clock(5, 0, 0, 0))>>,
                    <<"Sunrise", N(Clock(6, 30, 0, 0))>>,
                    <<"Dhuhr", ClockStr(Clock(12, 10, 0, 0), " (PST)")>>,
                    <<"Asr", N(Clock(15, 0, 0, 0))>>,
                    <<"Maghrib", N(Clock(17, 30, 0, 0))>>,
                    <<"Isha", N(Clock(19, 0, 0, 0))>>>>)

\* the 'data' lists a request for a month can return: the entries of the
\* first n days of that month, n at most MaxDays and at most `room`
MonthData(m, room) ==
  UNION {{[j \in 1..n |-> DayEntry(f[j], <<YEAR, m, j>>)] : f \in [1..n -> Variants]} :
         n \in {k \in 1..MaxDays : k <= room}}

\* what a GET for a month can come back with
Responses(m, room) ==
  {NetworkError, BadJson, JsonBody(404, None), JsonBody(200, None)}
    \cup {JsonBody(200, Some(d)) : d \in MonthData(m, room)}

\* ------------------------------------------------------------------ state
VARIABLES
  pc,                     \* where the run is
  num_months,             \* the argument of get_calendar_csv
  sess,                   \* the requests.Session: "none", "open", "closed"
  lines,                  \* get_calendar_csv's lines
  year_entries_per_day,
  month,                  \* the month loop's variable
  i,                      \* the number of tries made for the month
  month_entries_per_day,  \* None or the month's data
  entries_done,           \* how many entries the conversion loop has consumed
  last_maghrib_time,      \* None or the carried Maghrib
  event_times,            \* the ordered mapping of the entry last worked on
  csv_lines,              \* convert_entries_to_csv_lines' lines
  exc,                    \* the exception that ended the run, "" if none
  file                    \* None, or the lines written to prayer_times.csv

vars == <<pc, num_months, sess, lines, year_entries_per_day, month, i,
          month_entries_per_day, entries_done, last_maghrib_time, event_times,
          csv_lines, exc, file>>

fetchVars == <<year_entries_per_day, month, i, month_entries_per_day>>
convVars == <<entries_done, last_maghrib_time, event_times, csv_lines>>

Init ==
  /\ pc = "main"
  /\ num_months \in 0..MaxMonths
  /\ sess = "none"
  /\ lines = <<>>
  /\ year_entries_per_day = <<>>
  /\ month = 1
  /\ i = 0
  /\ month_entries_per_day = None
  /\ entries_done = 0
  /\ last_maghrib_time = None
  /\ event_times = <<>>
  /\ csv_lines = <<>>
  /\ exc = ""
  /\ file = None

\* an exception leaves the function and, uncaught, ends the program
Raise(e) == pc' = "raised" /\ exc' = e

\* get_calendar_csv is entered: the assertion, the session, the header
Call ==
  /\ pc = "main"
  /\ IF num_months >= 1 /\ num_months <= 12
     THEN /\ sess' = "open"
          /\ lines' = <<HeaderLine>>
          /\ pc' = "month"
          /\ exc' = exc
     ELSE /\ Raise("AssertionError")
          /\ UNCHANGED <<sess, lines>>
  /\ UNCHANGED <<num_months, fetchVars, convVars, file>>

\* the month loop takes its next month
BeginMonth ==
  /\ pc = "month"
  /\ month <= num_months
  /\ month_entries_per_day' = None
  /\ i' = 0
  /\ pc' = "try"
  /\ UNCHANGED <<num_months, sess, lines, year_entries_per_day, month,
                 convVars, exc, file>>

\* one try of the retry loop: a call of get_calendar_data that returns
\* (break) or raises (caught by the bare except, then the sleep)
TryWith(res) ==
  /\ pc = "try"
  /\ i < NUM_REQUEST_TRIES
  /\ IF GetCalendarDataRaises(res) = ""
     THEN /\ month_entries_per_day' = GetCalendarData(res)
          /\ pc' = "tried"
          /\ i' = i + 1
     ELSE /\ i' = i + 1
          /\ pc' = IF i + 1 < NUM_REQUEST_TRIES THEN "try" ELSE "tried"
          /\ UNCHANGED month_entries_per_day
  /\ UNCHANGED <<num_months, sess, lines, year_entries_per_day, month,
                 convVars, exc, file>>

\* the entries a month may still return, so that each later month can return
\* at least one and the year holds at most MaxEntries
Room == MaxEntries - Len(year_entries_per_day) - (num_months - month)

Try ==
  /\ pc = "try"
  /\ \E res \in Responses(month, Room) : TryWith(res)

\* mutant of EndMonth: the month's entries are put before those of the
\* earlier months
EndMonthPrepending ==
  /\ pc = "tried"
  /\ IF month_entries_per_day = None
     THEN /\ Raise("ConnectionError")
          /\ UNCHANGED <<year_entries_per_day, month, i>>
     ELSE /\ year_entries_per_day' = month_entries_per_day[1] \o year_entries_per_day
          /\ month' = month + 1
          /\ i' = 0
          /\ pc' = "month"
          /\ exc' = exc
  /\ UNCHANGED <<num_months, sess, lines, month_entries_per_day, convVars, file>>

\* after the retry loop: raise, or extend the year's entries and go on (the
\* try counter is dead once the loop is left and is cleared here)
EndMonth ==
  /\ pc = "tried"
  /\ IF month_entries_per_day = None
     THEN /\ Raise("ConnectionError")
          /\ UNCHANGED <<year_entries_per_day, month, i>>
     ELSE /\ year_entries_per_day' = year_entries_per_day \o month_entries_per_day[1]
          /\ month' = month + 1
          /\ i' = 0
          /\ pc' = "month"
          /\ exc' = exc
  /\ UNCHANGED <<num_months, sess, lines, month_entries_per_day, convVars, file>>

\* convert_entries_to_csv_lines is entered with the year's entries
ConvertBegin ==
  /\ pc = "month"
  /\ month > num_months
  /\ csv_lines' = <<>>
  /\ last_maghrib_time' = None
  /\ entries_done' = 0
  /\ pc' = "convert"
  /\ UNCHANGED <<num_months, sess, lines, fetchVars, event_times, exc, file>>

\* one round of the loop over entries
ConvertStep ==
  /\ pc = "convert"
  /\ entries_done < Len(year_entries_per_day)
  /\ LET r == ConvertEntry(year_entries_per_day[entries_done + 1], last_maghrib_time)
     IN  /\ event_times' = r.event_times
         /\ last_maghrib_time' = r.last
         /\ csv_lines' = csv_lines \o r.new
         /\ IF r.exc = ""
            THEN /\ entries_done' = entries_done + 1
                 /\ UNCHANGED <<pc, exc>>
            ELSE /\ Raise(r.exc)
                 /\ UNCHANGED entries_done
  /\ UNCHANGED <<num_months, sess, lines, fetchVars, file>>

\* convert_entries_to_csv_lines returns and lines.extend takes its result
ConvertReturn ==
  /\ pc = "convert"
  /\ entries_done = Len(year_entries_per_day)
  /\ lines' = lines \o csv_lines
  /\ pc' = "close"
  /\ UNCHANGED <<num_months, sess, fetchVars, convVars, exc, file>>

\* sess.close() and the return to the caller
Close ==
  /\ pc = "close"
  /\ sess' = "closed"
  /\ pc' = "write"
  /\ UNCHANGED <<num_months, lines, fetchVars, convVars, exc, file>>

\* the main block writes every line to prayer_times.csv
WriteFile ==
  /\ pc = "write"
  /\ file' = Some(lines)
  /\ pc' = "done"
  /\ UNCHANGED <<num_months, sess, lines, fetchVars, convVars, exc>>

Next ==
  \/ Call
  \/ BeginMonth
  \/ Try
  \/ EndMonth
  \/ ConvertBegin
  \/ ConvertStep
  \/ ConvertReturn
  \/ Close
  \/ WriteFile

Spec == Init /\ [][Next]_vars

\* ---------------------- convert_entries_to_csv_lines on its own, on any list
\* the dates of the entries of such a list: consecutive days from FirstDay
FirstDay == <<YEAR, 2, 28>>
DayDate(j) == FromOrdinal(ToOrdinal(FirstDay) + j - 1)

EntryLists ==
  UNION {{[j \in 1..n |-> DayEntry(f[j], DayDate(j))] : f \in [1..n -> Variants]} :
         n \in 0..MaxEntries}

ConvInit ==
  /\ pc = "month"
  /\ num_months = 1
  /\ month = 2
  /\ sess = "open"
  /\ lines = <<HeaderLine>>
  /\ year_entries_per_day \in EntryLists
  /\ i = 0
  /\ month_entries_per_day = None
  /\ entries_done = 0
  /\ last_maghrib_time = None
  /\ event_times = <<>>
  /\ csv_lines = <<>>
  /\ exc = ""
  /\ file = None

ConvNext == ConvertBegin \/ ConvertStep \/ ConvertReturn

ConvSpec == ConvInit /\ [][ConvNext]_vars

\* ---------------------------------------------- reading inputs and rows
\* the wall-clock date and time, microseconds and offset written in the
\* timestamp of field `name` of the k-th entry
Written(k, name) ==
  LET str == OdGet(year_entries_per_day[k].timings, name)
  IN  [s   |-> (DaysBeforeMonth[str.date[2]] + str.date[3] - 1) * 86400
               + 3600 * str.clock[1] + 60 * str.clock[2] + str.clock[3],
       us  |-> str.clock[4],
       off |-> str.off]

\* the utc offset of a datetime in seconds, 0 for a naive one
OffsetSeconds(dt) == IF dt.off = None THEN 0 ELSE 60 * dt.off[1]

\* the second a formatted <<mm, dd, yyyy>>, <<hh, mm, ss, AM|PM>> denotes,
\* counted from 2024-01-01 12:00:00 AM
ReadBack(date, time) ==
  (DaysBeforeMonth[date[1]] + date[2] - 1) * 86400
    + 3600 * ((time[1] % 12) + (IF time[4] = "PM" THEN 12 ELSE 0))
    + 60 * time[2] + time[3]
LineStart(line) == ReadBack(line[2], line[3])
LineEnd(line) == ReadBack(line[4], line[5])

SixNames == <<"Fajr", "Sunrise", "Dhuhr", "Asr", "Maghrib", "Isha">>

\* an entry with all six fields present and written as ISO date-times
WellFormed(entry) ==
  \A j \in 1..6 : /\ HasKey(entry.timings, SixNames[j])
                  /\ OdGet(entry.timings, SixNames[j]).txt = "iso"

\* entry k's Fajr and entry k-1's Maghrib: exactly one carries a utc offset
Mixes(k) ==
  (Written(k, "Fajr").off = None) # (Written(k - 1, "Maghrib").off = None)

\* a list the conversion accepts: every entry well formed, and no Fajr
\* paired with a Maghrib of the other kind (naive with aware)
Valid(entries) ==
  /\ \A k \in 1..Len(entries) : WellFormed(entries[k])
  /\ \A k \in 2..Len(entries) : ~Mixes(k)

\* where the rows of the k-th entry are in the output: the Midnight row of
\* an entry k > 1, and the row of its j-th named event
MidnightRow(k) == 7 * (k - 1)
EventRow(k, j) == IF k = 1 THEN j ELSE 7 * (k - 1) + j

\* the conversion loop has consumed entries_done entries without raising
Converting == pc \in {"convert", "close"} /\ exc = ""

\* ------------------------------------------------------------------ C1
\* C1: for consecutive entries k-1 and k, the Midnight instant of entry k is
\* the midpoint between the Maghrib of entry k-1 and the Fajr of entry k,
\* taken between the two instants and expressed in the Maghrib's offset:
\* twice the Midnight equals Maghrib + Fajr, to the microsecond when that sum
\* is even, and otherwise the Midnight is the even one of the two nearest
\* microseconds; the Midnight row is the first row of entry k and starts at
\* that instant minus the lead.
C1_MidnightIsMidpoint ==
  (Converting /\ entries_done >= 2) =>
    LET k   == entries_done
        a   == Written(k - 1, "Maghrib")
        b   == Written(k, "Fajr")
        m   == OdGet(event_times, "Midnight")
        ds  == 2 * (m.s - OffsetSeconds(a))
                 - (a.s - OffsetSeconds(a)) - (b.s - OffsetSeconds(b))
        d   == ds * 1000000 + 2 * m.us - a.us - b.us
        row == csv_lines[MidnightRow(k)]
    IN  /\ HasKey(event_times, "Midnight")
        /\ m.off = a.off
        /\ ds \in -2..2
        /\ d \in -1..1
        /\ d # 0 => m.us % 2 = 0
        /\ row[1] = "Midnight"
        /\ LineStart(row) = m.s - 60 * MINUTES_BEFORE

\* Maghrib 17:30:00 on the first day, Fajr 05:02:00 on the second: the
\* Midnight row of the second entry starts at 11:16:00 PM of the first day
C1_Witness ==
  /\ Converting
  /\ entries_done = 2
  /\ Written(1, "Maghrib").s % 86400 = 17 * 3600 + 30 * 60
  /\ Written(2, "Fajr").s % 86400 = 5 * 3600 + 2 * 60
  /\ csv_lines[7] = <<"Midnight", <<2, 28, 2024>>, <<11, 16, 0, "PM">>,
                      <<2, 28, 2024>>, <<11, 21, 0, "PM">>, "Auto-generated">>

\* ------------------------------------------------------------------ C2
\* C2: a valid list never raises; after n entries the conversion holds 0
\* rows for n = 0 and 7n - 1 rows otherwise: 6 rows for the first entry, none
\* named Midnight, and 7 rows for each later entry, exactly one named
\* Midnight; what is returned is the rows of all the entries.
C2_RowCounts ==
  /\ Valid(year_entries_per_day) => exc = ""
  /\ Converting =>
       /\ Len(csv_lines) = IF entries_done = 0 THEN 0 ELSE 7 * entries_done - 1
       /\ \A k \in 1..entries_done :
            LET from == IF k = 1 THEN 1 ELSE MidnightRow(k)
                to   == 7 * k - 1
            IN  /\ to - from + 1 = IF k = 1 THEN 6 ELSE 7
                /\ Cardinality({r \in from..to : csv_lines[r][1] = "Midnight"})
                     = IF k = 1 THEN 0 ELSE 1
  /\ pc = "close" =>
       /\ entries_done = Len(year_entries_per_day)
       /\ Valid(year_entries_per_day)
       /\ lines = <<HeaderLine>> \o csv_lines

C2_Witness ==
  /\ pc = "close"
  /\ Len(year_entries_per_day) = 3
  /\ Len(csv_lines) = 20

\* ------------------------------------------------------------------ C3
\* C3: the rows of entry k come after those of entry k-1, and within an entry
\* they are Midnight (from the second entry on), Fajr, Sunrise, Dhuhr, Asr,
\* Maghrib, Isha, each named row starting at the instant written in that
\* entry for that name minus the lead, whatever the order of the entry's keys
\* and whatever other keys it has.
C3_RowOrder ==
  Converting =>
    \A k \in 1..entries_done :
      /\ k > 1 => csv_lines[MidnightRow(k)][1] = "Midnight"
      /\ \A j \in 1..6 :
           LET row == csv_lines[EventRow(k, j)]
           IN  /\ row[1] = SixNames[j]
               /\ LineStart(row) = Written(k, SixNames[j]).s - 60 * MINUTES_BEFORE

\* a converted list with an entry whose keys come in another order, with
\* keys that are not copied among them
C3_Witness ==
  /\ pc = "close"
  /\ \E k \in 1..Len(year_entries_per_day) :
       LET t == year_entries_per_day[k].timings
       IN  /\ t[1][1] = "Midnight"
           /\ t[2][1] = "Isha"
           /\ Len(t) > 6
           /\ k > 1

\* ------------------------------------------------------------------ C4
\* C4: every row ends lead + lag minutes after it starts, and the rows of
\* the entry last converted, Midnight included, start at the event's instant
\* minus the lead and end at it plus the lag.
C4_Window ==
  Converting =>
    /\ \A r \in 1..Len(csv_lines) :
         LineEnd(csv_lines[r]) - LineStart(csv_lines[r])
           = 60 * (MINUTES_BEFORE + MINUTES_AFTER)
    /\ entries_done >= 1 =>
         \A j \in 1..Len(event_times) :
           LET row == csv_lines[Len(csv_lines) - Len(event_times) + j]
           IN  /\ row[1] = event_times[j][1]
               /\ LineStart(row) = event_times[j][2].s - 60 * MINUTES_BEFORE
               /\ LineEnd(row) = event_times[j][2].s + 60 * MINUTES_AFTER

\* a Midnight row and an Isha row whose window crosses into the next date
C4_Witness ==
  /\ Converting
  /\ \E r \in 1..Len(csv_lines) :
       csv_lines[r][1] = "Midnight" /\ csv_lines[r][2] # csv_lines[r][4]
  /\ \E r \in 1..Len(csv_lines) :
       csv_lines[r][1] = "Isha" /\ csv_lines[r][2] # csv_lines[r][4]

\* ------------------------------------------------------------------ C7
\* the same entries with every timestamp's white-space-separated annotation
\* taken away, and with its utc offset taken away as well
MapValues(entries, F(_)) ==
  [k \in 1..Len(entries) |->
     [timings |-> [j \in 1..Len(entries[k].timings) |->
                     <<entries[k].timings[j][1], F(entries[k].timings[j][2])>>]]]
WithoutAnnotation(str) == [str EXCEPT !.ann = ""]
WallClockOnly(str) == [str EXCEPT !.ann = "", !.off = None]

\* what the conversion gave its caller: the exception, or the rows
Outcome == [exc |-> exc, lines |-> IF exc = "" THEN csv_lines ELSE <<>>]
ConversionOver == pc \in {"close", "raised"}

\* C7 as claimed: the rows returned are those of the same entries with the
\* time zone markers (annotation and utc offset) removed, so they depend on
\* the written wall-clock dates and times alone.
C7_WallClockOnly ==
  pc = "close" =>
    csv_lines = ConvertEntriesToCsvLines(MapValues(year_entries_per_day, WallClockOnly)).lines

\* C7 amended: only the annotation after the white space is discarded and the
\* utc offset is kept.  The outcome does not depend on the annotations.  A
\* missing or unparsable field raises as it does without the offsets.  The
\* rows of the six copied events are those of the wall-clock entries.  A
\* Midnight row equals the wall-clock one when the previous Maghrib and the
\* Fajr carry the same offset (or none), and is moved by half the difference
\* of the two offsets when these differ; TypeError is raised, and no rows are
\* returned, only when one of the two carries an offset and the other none.
C7_OffsetsKept ==
  ConversionOver =>
    LET given == year_entries_per_day
        n     == Len(given)
        wall  == ConvertEntriesToCsvLines(MapValues(given, WallClockOnly))
    IN  /\ Outcome = ConvertEntriesToCsvLines(MapValues(given, WithoutAnnotation))
        /\ exc \in {"KeyError", "ValueError"} => wall.exc = exc
        /\ wall.exc # "" => exc # ""
        /\ exc = "TypeError" =>
             /\ Outcome.lines = <<>>
             /\ \E k \in 2..n : WellFormed(given[k - 1]) /\ WellFormed(given[k]) /\ Mixes(k)
        /\ (wall.exc = "" /\ \A k \in 2..n : ~Mixes(k)) => exc = ""
        /\ exc = "" =>
             /\ Len(csv_lines) = Len(wall.lines)
             /\ \A k \in 1..n :
                  /\ \A j \in 1..6 : csv_lines[EventRow(k, j)] = wall.lines[EventRow(k, j)]
                  /\ k > 1 =>
                       LET row   == csv_lines[MidnightRow(k)]
                           moved == (OffsetSeconds(Written(k - 1, "Maghrib"))
                                       - OffsetSeconds(Written(k, "Fajr"))) \div 2
                       IN  /\ row[1] = "Midnight"
                           /\ LineStart(row) = LineStart(wall.lines[MidnightRow(k)]) + moved
                           /\ LineEnd(row) = LineEnd(wall.lines[MidnightRow(k)]) + moved
                           /\ moved = 0 => row = wall.lines[MidnightRow(k)]

\* Maghrib 17:30 at -08:00 and the next Fajr 06:26 at -07:00: the rows are
\* returned and the Midnight row starts at 11:28 PM, half an hour before the
\* 11:58 PM of the wall-clock midpoint
C7_Witness ==
  /\ pc = "close"
  /\ \E k \in 2..Len(year_entries_per_day) :
       /\ Written(k - 1, "Maghrib").off = <<-480>>
       /\ Written(k, "Fajr").off = <<-420>>
       /\ csv_lines[MidnightRow(k)][3] = <<11, 28, 0, "PM">>

\* ------------------------------------------------------------------ C5
\* the first of the six names whose field is missing or is no ISO date-time
FirstMalformed(entry) ==
  CHOOSE j \in 1..6 :
    /\ ~(HasKey(entry.timings, SixNames[j]) /\ OdGet(entry.timings, SixNames[j]).txt = "iso")
    /\ \A h \in 1..(j - 1) :
         HasKey(entry.timings, SixNames[h]) /\ OdGet(entry.timings, SixNames[h]).txt = "iso"

\* nothing runs after an uncaught exception
RaisedIsFinal == [][pc # "raised"]_vars

\* C5: while the fetched entries hold a malformed one (a missing field or one
\* that is no date-time), no row ever reaches get_calendar_csv's lines or
\* the file; when the conversion comes to that entry it raises (KeyError for a
\* missing field, ValueError for an unparsable one: the spec's
\* MalformedTimingError), the rows built so far are not returned, and nothing
\* runs afterwards.
C5_NoPartialOutput ==
  /\ []((\E k \in 1..Len(year_entries_per_day) : ~WellFormed(year_entries_per_day[k]))
          => /\ pc \notin {"close", "write", "done"}
             /\ file = None
             /\ Len(lines) <= 1)
  /\ [][(/\ pc = "convert"
         /\ entries_done < Len(year_entries_per_day)
         /\ ~WellFormed(year_entries_per_day[entries_done + 1]))
        => LET e == year_entries_per_day[entries_done + 1]
           IN  /\ pc' = "raised"
               /\ exc' = IF HasKey(e.timings, SixNames[FirstMalformed(e)])
                         THEN "ValueError" ELSE "KeyError"
               /\ lines' = <<HeaderLine>>
               /\ file' = None]_vars
  /\ RaisedIsFinal

\* the second of three days lacks a field: rows were built for the first day,
\* and the run ended with none returned, none for the third day, and no file
C5_Witness ==
  /\ pc = "raised"
  /\ exc = "KeyError"
  /\ entries_done = 1
  /\ Len(year_entries_per_day) = 3
  /\ Len(csv_lines) = 6
  /\ lines = <<HeaderLine>>
  /\ file = None

\* ------------------------------------------------------------------ C6
FailedResponses == {NetworkError, BadJson, JsonBody(404, None)}

\* C6: at most 5 tries are made for a month; a try that fails in any way (no
\* response, a body that is not JSON, a code other than 200) is followed by
\* another try while fewer than 5 were made; a try that returns data ends the
\* tries; when the tries end without data ConnectionError is raised, and then
\* no later month is requested, no row is generated and no file is written.
C6_Retries ==
  /\ [](i <= 5 /\ (pc = "try" => i < 5))
  /\ [](pc = "try" =>
          \A res \in FailedResponses :
            ENABLED (/\ TryWith(res)
                     /\ i' = i + 1
                     /\ month_entries_per_day' = None
                     /\ pc' = IF i + 1 < 5 THEN "try" ELSE "tried"))
  /\ [][(pc = "try" /\ pc' = "try")
        => /\ i' = i + 1
           /\ month_entries_per_day' = None
           /\ UNCHANGED <<month, year_entries_per_day>>]_vars
  /\ [][(pc = "try" /\ month_entries_per_day' # None) => pc' = "tried"]_vars
  /\ [](pc = "tried" => ~ENABLED Try)
  /\ [][(pc = "tried" /\ month_entries_per_day = None)
        => (pc' = "raised" /\ exc' = "ConnectionError")]_vars
  /\ [](exc = "ConnectionError" =>
          /\ pc = "raised"
          /\ month_entries_per_day = None
          /\ month <= num_months
          /\ csv_lines = <<>>
          /\ lines = <<HeaderLine>>
          /\ file = None)
  /\ [][pc = "raised" => UNCHANGED vars]_vars

\* the first month was fetched, all 5 tries for the second failed
C6_Witness ==
  /\ exc = "ConnectionError"
  /\ i = 5
  /\ month = 2
  /\ num_months = 2
  /\ Len(year_entries_per_day) >= 1

\* ------------------------------------------------------------------ C8
\* the month and the day of the date written in an entry
EntryMonth(entry) == entry.timings[1][2].date[2]
EntryDay(entry) == entry.timings[1][2].date[3]

\* C8: the months are taken in ascending order, one at a time; the year's
\* entries are at any time those of the months already done, each month's
\* once and in month order; the conversion is entered once, after the last
\* month, and the lines returned are the header followed by the rows of the
\* conversion of the year's entries, which are what is written to the file.
C8_SuccessfulRun ==
  /\ [](\A k \in 1..Len(year_entries_per_day) :
          LET e == year_entries_per_day[k]
          IN  /\ EntryMonth(e) < month
              /\ IF k = 1
                 THEN EntryMonth(e) = 1 /\ EntryDay(e) = 1
                 ELSE LET p == year_entries_per_day[k - 1]
                      IN  \/ EntryMonth(e) = EntryMonth(p) /\ EntryDay(e) = EntryDay(p) + 1
                          \/ EntryMonth(e) = EntryMonth(p) + 1 /\ EntryDay(e) = 1)
  /\ [](\A m \in 1..(month - 1) :
          \E k \in 1..Len(year_entries_per_day) : EntryMonth(year_entries_per_day[k]) = m)
  /\ [][month' # month
        => /\ month' = month + 1
           /\ pc = "tried"
           /\ month_entries_per_day # None
           /\ year_entries_per_day' = year_entries_per_day \o month_entries_per_day[1]]_vars
  /\ [][(pc' = "convert" /\ pc # "convert")
        => /\ month = num_months + 1
           /\ lines = <<HeaderLine>>
           /\ entries_done' = 0
           /\ csv_lines' = <<>>]_vars
  /\ [][(pc \in {"close", "write", "done"})
        => (pc' \in {"close", "write", "done"} /\ UNCHANGED year_entries_per_day)]_vars
  /\ [](pc \in {"write", "done"} =>
          /\ exc = ""
          /\ month = num_months + 1
          /\ ConvertEntriesToCsvLines(year_entries_per_day).exc = ""
          /\ lines = <<<<"Subject", "Start Date", "Start Time", "End Date",
                         "End Time", "Description">>>>
                       \o ConvertEntriesToCsvLines(year_entries_per_day).lines
          /\ Len(lines) = 7 * Len(year_entries_per_day))
  /\ [](pc = "done" => file = Some(lines))

C8_Witness ==
  /\ pc = "done"
  /\ num_months = 2
  /\ Len(year_entries_per_day) = 3
  /\ Len(file[1]) = 21

\* ------------------------------------------------------------------ C9
\* the rows get_calendar_csv returns, without the header
ReturnedRows == Tail(lines)

\* C9: in the lines of a successful run every entry but the very first has a
\* Midnight row, and the Midnight row of the first day of a month after the
\* first starts in the second that holds the midpoint between the Maghrib of
\* the entry before it, the last day fetched of the preceding month, and its
\* own Fajr.
C9_AnchorAcrossMonths ==
  pc \in {"close", "write", "done"} =>
    /\ Len(ReturnedRows) + 1 = 7 * Len(year_entries_per_day)
    /\ \A k \in 1..Len(year_entries_per_day) :
      LET e == year_entries_per_day[k]
      IN  /\ (\E r \in (IF k = 1 THEN 1 ELSE MidnightRow(k))..(7 * k - 1) :
                ReturnedRows[r][1] = "Midnight") <=> (k > 1)
          /\ (k > 1 /\ EntryDay(e) = 1) =>
               LET row == ReturnedRows[MidnightRow(k)]
                   a   == Written(k - 1, "Maghrib")
                   b   == Written(k, "Fajr")
                   x   == 2 * (LineStart(row) + 60 * MINUTES_BEFORE - OffsetSeconds(a))
                            - (a.s - OffsetSeconds(a)) - (b.s - OffsetSeconds(b))
               IN  /\ EntryMonth(year_entries_per_day[k - 1]) = EntryMonth(e) - 1
                   /\ row[1] = "Midnight"
                   /\ x \in -4..4
                   /\ x * 1000000 <= a.us + b.us + 1
                   /\ a.us + b.us - 1 < (x + 2) * 1000000

\* two months: the first entry of the second month has a Midnight row, dated
\* in the first month
C9_Witness ==
  /\ pc = "done"
  /\ num_months = 2
  /\ \E k \in 2..Len(year_entries_per_day) :
       /\ EntryMonth(year_entries_per_day[k]) = 2
       /\ EntryDay(year_entries_per_day[k]) = 1
       /\ ReturnedRows[MidnightRow(k)][1] = "Midnight"
       /\ ReturnedRows[MidnightRow(k)][2][1] = 1

\* ----------------------------------------------------------------- C10
\* C10: whenever get_calendar_csv has ended, by returning or by raising after
\* it opened the session, the session is closed.
C10_SessionClosedOnExit ==
  (pc \in {"write", "done", "raised"} /\ sess # "none") => sess = "closed"

====
